---- MODULE Spec2Model ----
(***************************************************************************)
(* A model of the MCP chat application: the protocol client (MCPClient),   *)
(* the tool manager (ToolManager) and the orchestration loop (Chat.run).   *)
(*                                                                         *)
(* Text is modelled structurally: an f-string is the tuple of its pieces,  *)
(* json.dumps of a value is the value tagged with its JSON shape.          *)
(***************************************************************************)
EXTENDS Integers, Sequences, FiniteSets, TLC

(***************************************************************************)
(* Bounds of the model                                                     *)
(***************************************************************************)
NumClients == 2
MaxBatch == 2
MaxMessages == 13
MaxRuns == 2
MaxFaults == 1
MaxProps == 2

(***************************************************************************)
(* Program constants                                                       *)
(***************************************************************************)
max_iterations == 5
FALLBACK == "I encountered an issue while processing your request. Please try rephrasing your question."
NOT_FOUND == "Could not find that tool"
PLACEHOLDER == "Tool execution completed with no results."
NOT_READY == "Client session not initialized or cache not populated. Call connect_to_server first."

Clients == 1..NumClients

BoundedSeq(S, n) == UNION {[1..k -> S] : k \in 0..n}

VARIABLES
    \* MCPClient fields and the server behind each client
    _session,            \* client -> "None" | "ClientSession"
    _exit_stack,         \* client -> sequence of entered contexts
    initialized,         \* client -> has session.initialize() completed
    lifecycle,           \* client -> where its connect()/cleanup() stands
    transport,           \* client -> "none" | "up" | "down"
    serverTools,         \* client -> the tool names the server reports now
    lastCall,            \* the last list_tools()/call_tool() made on a client
    teardown,            \* client -> "none", or the path cleanup() took
    \* Chat fields and the locals of Chat.run
    messages,
    pc,
    iteration_count,
    final_text_response,
    response,
    tools,
    returned,
    error,
    modelCalls,
    batchCount,
    \* locals of ToolManager.execute_tool_requests and its helpers
    caller,
    variant,
    requests,
    i,
    tool_result_blocks,
    findIdx,
    client,
    observed,
    calls,
    previous,            \* the batch and the result ids of the last finished direct call
    \* _convert_mcp_schema_to_gemini: its argument and what it returned
    mcp_schema,
    gemini_schema,
    reconverted          \* what it returned when given gemini_schema

clientVars == <<_session, _exit_stack, initialized, lifecycle, transport,
                serverTools, lastCall, teardown>>
chatVars == <<messages, iteration_count, final_text_response, response,
              tools, returned, modelCalls, batchCount>>
execVars == <<caller, variant, requests, i, tool_result_blocks, findIdx,
              client, observed, calls, previous>>
schemaVars == <<mcp_schema, gemini_schema, reconverted>>
vars == <<clientVars, chatVars, execVars, schemaVars, pc, error>>

(***************************************************************************)
(* Values exchanged with the collaborators                                 *)
(***************************************************************************)
\* MockFunctionCall(name, args)
FunctionCalls ==
    { [name |-> "search", args |-> "a1"],
      [name |-> "search", args |-> "a2"],
      [name |-> "fetch", args |-> "a1"] }

\* The blocks of a Claude-style response.content
ToolUseBlocks ==
    { [type |-> "tool_use", id |-> <<"toolu_1">>, name |-> "search", input |-> "a1"],
      [type |-> "tool_use", id |-> <<"toolu_2">>, name |-> "search", input |-> "a2"],
      [type |-> "tool_use", id |-> <<"toolu_2">>, name |-> "fetch", input |-> "a1"] }
TextBlock == [type |-> "text", id |-> <<>>, name |-> "", input |-> ""]
ContentBlocks == ToolUseBlocks \cup {TextBlock}

\* MockResponse(text, function_calls): it has no content attribute
MockResponse(text, function_calls) ==
    [text |-> text, function_calls |-> function_calls,
     has_content |-> FALSE, content |-> <<>>]

\* A Claude-style Message: content blocks, no function_calls attribute
ClaudeMessage(content) ==
    [text |-> "", function_calls |-> <<>>, has_content |-> TRUE, content |-> content]

NoResponse == MockResponse("", <<>>)

\* A response that carries a tool_use block in its content and no
\* function_calls.  It has no text attribute: text holds the str(response)
\* that run() and _add_assistant_message take in its place
ToolUseOnlyResponse ==
    [text |-> "Message(content=[tool_use])", function_calls |-> <<>>,
     has_content |-> TRUE,
     content |-> <<[type |-> "tool_use", id |-> <<"toolu_1">>,
                    name |-> "search", input |-> "a1"]>>]

\* The responses the model adapter gives to Chat.run
AdapterResponses ==
    { MockResponse("answer", <<>>),
      MockResponse("", <<>>),
      MockResponse("", <<[name |-> "search", args |-> "a1"]>>),
      MockResponse("thinking", <<[name |-> "fetch", args |-> "a1"],
                                 [name |-> "search", args |-> "a2"]>>) }

\* The responses of an adapter that may answer with tool_use blocks as well
EngineResponses ==
    { MockResponse("answer", <<>>),
      MockResponse("", <<[name |-> "search", args |-> "a1"]>>),
      MockResponse("thinking", <<[name |-> "fetch", args |-> "a1"],
                                 [name |-> "search", args |-> "a2"]>>),
      ToolUseOnlyResponse }

\* The responses handed to ToolManager.execute_tool_requests directly
DirectResponses ==
    {MockResponse("", fcs) : fcs \in BoundedSeq(FunctionCalls, MaxBatch)}
    \cup {ClaudeMessage(c) : c \in BoundedSeq(ContentBlocks, MaxBatch)}

\* What a server's tools/list reports when its tools are registered, in the
\* server's order: the first client serves search, every other one fetch
\* and search; a server whose tools are withdrawn reports <<>>
RunListings == [c \in Clients |-> IF c = 1 THEN <<"search">> ELSE <<"fetch", "search">>]
ToolLists(c) == {<<>>, RunListings[c]}
Listings == {l \in [Clients -> {<<>>, <<"search">>, <<"fetch", "search">>}] :
                \A c \in Clients : l[c] \in ToolLists(c)}

\* mcp.types content items of a CallToolResult
TextContent(t) == [type |-> "text", text |-> t]
ImageContent == [type |-> "image", text |-> ""]

\* What session.call_tool may do: return None, return a CallToolResult,
\* or raise
ReturnsNone == [kind |-> "None", content |-> <<>>, isError |-> FALSE, msg |-> ""]
Returns(content, isError) ==
    [kind |-> "result", content |-> content, isError |-> isError, msg |-> ""]
Raises(msg) == [kind |-> "raise", content |-> <<>>, isError |-> FALSE, msg |-> msg]

ServerOutcomes ==
    { ReturnsNone,
      Returns(<<ImageContent, TextContent("out")>>, FALSE),
      Returns(<<TextContent("bad input")>>, TRUE),
      Raises("tool timed out") }
CONNECTION_LOST == "Connection closed"
NOT_INITIALIZED == "Received request before initialization was complete"

\* The outcomes the servers show during Chat.run
RunOutcomes == { Returns(<<TextContent("out")>>, FALSE) }

(***************************************************************************)
(* Sequence helpers                                                        *)
(***************************************************************************)
IsPrefix(s, t) == Len(s) <= Len(t) /\ SubSeq(t, 1, Len(s)) = s

RECURSIVE Concat(_)
Concat(ss) == IF ss = <<>> THEN <<>> ELSE Head(ss) \o Concat(Tail(ss))

(***************************************************************************)
(* MCPClient.session / list_tools / call_tool   (src/mcp_client.py)        *)
(***************************************************************************)
\* session(): raises ConnectionError when _session is None
SessionReady(c) == _session[c] # "None"

\* list_tools(): "not_ready" when session() raises, "transport_error" when
\* the request cannot be served, "ok" when the server answers
ListToolsStatus(c) ==
    IF ~SessionReady(c) THEN "not_ready"
    ELSE IF transport[c] # "up" THEN "transport_error"
    ELSE IF ~initialized[c] THEN "not_initialized"
    ELSE "ok"

ListToolsRaises(c) == ListToolsStatus(c) # "ok"

ListToolsError(c) ==
    IF ListToolsStatus(c) = "not_ready" THEN NOT_READY
    ELSE IF ListToolsStatus(c) = "transport_error" THEN CONNECTION_LOST
    ELSE NOT_INITIALIZED

\* call_tool(): what the await yields for a server answer o
CallToolOutcome(c, o) ==
    IF ~SessionReady(c) THEN Raises(NOT_READY)
    ELSE IF transport[c] # "up" THEN Raises(CONNECTION_LOST)
    ELSE IF ~initialized[c] THEN Raises(NOT_INITIALIZED)
    ELSE o

\* A list_tools()/call_tool() made on client c: how it ended, whether it got
\* past session() to await the session, and whether cleanup() had ended
\* before it
CleanedUp(c) == lifecycle[c] \in {"cleanup_done", "cleanup_raised"}

NoCall == [client |-> 0, op |-> "", status |-> "", awaited_session |-> FALSE,
           after_cleanup |-> FALSE]

ClientCallRecord(c, op) ==
    [client |-> c, op |-> op, status |-> ListToolsStatus(c),
     awaited_session |-> (ListToolsStatus(c) # "not_ready"),
     after_cleanup |-> CleanedUp(c)]

(***************************************************************************)
(* ToolManager   (src/core/tools.py)                                       *)
(***************************************************************************)
\* get_all_tools: one declaration per tool of every client, clients in
\* registration order, tools in the server's order
get_all_tools == Concat([c \in Clients |-> serverTools[c]])

InSeq(x, s) == \E k \in 1..Len(s) : s[k] = x

\* A key of a dict that may be missing: <<>> when the key is not in the
\* dict, <<v>> when it is there with value v
None == <<>>
Some(v) == <<v>>
Get(entry, default) == IF entry = None THEN default ELSE entry[1]

\* The definition of one property in an inputSchema: a dict with any of
\* type, description, enum and keys the target format does not know, or a
\* value that is no dict at all (JSON Schema allows true/false)
OtherPropKeys == {"default"}
PropDef(type, description, enum, others) ==
    [is_dict |-> TRUE, type |-> type, description |-> description,
     enum |-> enum, others |-> others]
NotADictProp ==
    [is_dict |-> FALSE, type |-> None, description |-> None, enum |-> None,
     others |-> {}]
PropDefs ==
    { PropDef(t, d, e, o) :
        t \in {None, Some("integer")}, d \in {None, Some("a doc")},
        e \in {None, Some(<<"x", "y">>)}, o \in SUBSET OtherPropKeys }
    \cup {NotADictProp}

\* A properties dict, in insertion order: (name, definition) pairs with
\* distinct names
PropNames == {"q", "n", "k"}
Properties ==
    { ps \in BoundedSeq([name : PropNames, def : PropDefs], MaxProps) :
        \A a \in 1..Len(ps) : \A b \in 1..Len(ps) : ps[a].name = ps[b].name => a = b }

\* An inputSchema: a dict with any of type, properties, required and other
\* keys, or a value that is no dict
OtherSchemaKeys == {"additionalProperties"}
Schema(type, properties, required, others) ==
    [is_dict |-> TRUE, type |-> type, properties |-> properties,
     required |-> required, others |-> others]
NotAMapping ==
    [is_dict |-> FALSE, type |-> None, properties |-> None, required |-> None,
     others |-> {}]
Schemas ==
    { Schema(t, ps, r, o) :
        t \in {None, Some("object"), Some("string")},
        ps \in {None} \cup {Some(x) : x \in Properties},
        r \in {None, Some(<<"q">>)},
        o \in SUBSET OtherSchemaKeys }
    \cup {NotAMapping}

\* The empty dict
EmptyDict == Schema(None, None, None, {})

\* clean_prop with every key of the definition kept
clean_prop_keep_all(prop_def) ==
    PropDef(Some(Get(prop_def.type, "string")), prop_def.description,
            prop_def.enum, prop_def.others)

\* clean_prop: type (default "string"), and description and enum if the
\* definition has them
clean_prop(prop_def) ==
    PropDef(Some(Get(prop_def.type, "string")), prop_def.description,
            prop_def.enum, {})

IsDictProp(p) == p.def.is_dict

\* The loop over mcp_schema["properties"].items()
clean_properties(props) ==
    LET dicts == SelectSeq(props, IsDictProp)
    IN  [k \in 1..Len(dicts) |->
            [name |-> dicts[k].name, def |-> clean_prop(dicts[k].def)]]

_convert_mcp_schema_to_gemini(schema) ==
    IF ~schema.is_dict THEN EmptyDict
    ELSE Schema(Some(Get(schema.type, "object")),
                IF schema.properties = None THEN None
                ELSE Some(clean_properties(schema.properties[1])),
                schema.required,
                {})

\* No conversion is under way
SchemaIdle ==
    /\ mcp_schema = NotAMapping
    /\ gemini_schema = NotAMapping
    /\ reconverted = NotAMapping

\* _build_tool_result_part
_build_tool_result_part(tool_use_id, text, status) ==
    [tool_use_id |-> tool_use_id, type |-> "tool_result",
     content |-> text, is_error |-> (status = "error")]

\* The three texts a result can carry
Literal(t) == [fmt |-> "str", body |-> <<t>>]
JsonList(strs) == [fmt |-> "json_list", body |-> strs]
JsonErrorObject(tool_name, e) ==
    [fmt |-> "json_error", body |-> <<"Error executing tool", tool_name, e>>]

IsTextContent(item) == item.type = "text"

\* [item.text for item in items if isinstance(item, TextContent)]
content_list(items) ==
    LET texts == SelectSeq(items, IsTextContent)
    IN  [k \in 1..Len(texts) |-> texts[k].text]

\* The result part of a request no client serves
NotFoundPartSuccess(tool_use_id) ==
    _build_tool_result_part(tool_use_id, Literal(NOT_FOUND), "success")

NotFoundPart(tool_use_id) ==
    _build_tool_result_part(tool_use_id, Literal(NOT_FOUND), "error")

\* The except branch without json.dumps of the error object
CallResultPartPlainText(tool_use_id, tool_name, o) ==
    IF o.kind = "raise"
    THEN _build_tool_result_part(tool_use_id, Literal(o.msg), "error")
    ELSE _build_tool_result_part(
             tool_use_id,
             JsonList(content_list(IF o.kind = "None" THEN <<>> ELSE o.content)),
             IF o.kind # "None" /\ o.isError THEN "error" ELSE "success")

\* The result part built from what call_tool did (the try/except body)
CallResultPart(tool_use_id, tool_name, o) ==
    IF o.kind = "raise"
    THEN _build_tool_result_part(tool_use_id, JsonErrorObject(tool_name, o.msg), "error")
    ELSE _build_tool_result_part(
             tool_use_id,
             JsonList(content_list(IF o.kind = "None" THEN <<>> ELSE o.content)),
             IF o.kind # "None" /\ o.isError THEN "error" ELSE "success")

\* The scan from the last registered client down
FindOrderReversed == [k \in 1..NumClients |-> NumClients + 1 - k]

\* list(clients.values()): the order _find_client_with_tool scans
FindOrder == [k \in 1..NumClients |-> k]

\* t.name == tool_name for some t of the listing
HasTool(listing, tool_name) == InSeq(tool_name, listing)

\* The request fields, per variant: (id, name, arguments)
\* variant A: f"gemini_call_{i}_{tool_name}", func_call.name, func_call.args
\* variant B: tool_request.id, tool_request.name, tool_request.input
\* Ids without the index
ToolUseIdNoIndex(v, k, req) ==
    IF v = "A" THEN <<"gemini_call", 0, req.name>> ELSE req.id

\* Ids numbered from one
ToolUseIdFromOne(v, k, req) ==
    IF v = "A" THEN <<"gemini_call", k + 1, req.name>> ELSE req.id

ToolUseId(v, k, req) == IF v = "A" THEN <<"gemini_call", k, req.name>> ELSE req.id
ToolName(v, req) == req.name
ToolInput(v, req) == IF v = "A" THEN req.args ELSE req.input

IsToolUse(block) == block.type = "tool_use"

\* execute_tool_requests: which batch the response carries
BatchVariant(r) ==
    IF r.function_calls # <<>> THEN "A"
    ELSE IF r.has_content THEN "B"
    ELSE "none"

BatchRequests(r) ==
    IF r.function_calls # <<>> THEN r.function_calls
    ELSE IF r.has_content THEN SelectSeq(r.content, IsToolUse)
    ELSE <<>>

(***************************************************************************)
(* Chat   (src/core/chat.py)                                               *)
(***************************************************************************)
TextMessage(role, text) ==
    [role |-> role, kind |-> "text", text |-> text, parts |-> <<>>, lines |-> <<>>]

TextPart(text) == [type |-> "text", text |-> text, name |-> "", args |-> ""]
FunctionCallPart(fc) ==
    [type |-> "function_call", text |-> "", name |-> fc.name, args |-> fc.args]

\* The test of run() and of _add_assistant_message taken on tool_use
\* blocks as well
WantsToolsOrToolUse(r) ==
    r.function_calls # <<>> \/ (r.has_content /\ BatchRequests(r) # <<>>)

\* hasattr(response, 'function_calls') and response.function_calls
WantsTools(r) == r.function_calls # <<>>

\* _add_assistant_message: the message appended for a response
AssistantMessage(r) ==
    IF r.function_calls # <<>>
    THEN [role |-> "assistant", kind |-> "parts", text |-> "",
          parts |-> (IF r.text # "" THEN <<TextPart(r.text)>> ELSE <<>>)
                    \o [k \in 1..Len(r.function_calls) |->
                            FunctionCallPart(r.function_calls[k])],
          lines |-> <<>>]
    ELSE TextMessage("assistant", r.text)

\* A summary line that ignores is_error
SummaryLineAlwaysSuccess(result) ==
    <<result.tool_use_id, "SUCCESS", result.content>>

\* One line of the summary: f"- {tool_id}: {status} - {content}\n"
SummaryLine(result) ==
    <<result.tool_use_id, IF result.is_error THEN "ERROR" ELSE "SUCCESS", result.content>>

\* A summary that stops after the first result
UserMessageFirstOnly(tool_result_parts) ==
    IF tool_result_parts # <<>>
    THEN [role |-> "user", kind |-> "summary", text |-> "Tool execution results:",
          parts |-> <<>>,
          lines |-> <<SummaryLine(tool_result_parts[1])>>]
    ELSE TextMessage("user", PLACEHOLDER)

\* _add_user_message: the message appended for a batch of results
UserMessage(tool_result_parts) ==
    IF tool_result_parts # <<>>
    THEN [role |-> "user", kind |-> "summary", text |-> "Tool execution results:",
          parts |-> <<>>,
          lines |-> [k \in 1..Len(tool_result_parts) |-> SummaryLine(tool_result_parts[k])]]
    ELSE TextMessage("user", PLACEHOLDER)

Queries == {"hello"}

\* The run() calls made so far: one query message each
RunCount ==
    Cardinality({k \in 1..Len(messages) :
        messages[k].role = "user" /\ messages[k].kind = "text"
        /\ messages[k].text \in Queries})

(***************************************************************************)
(* Actions of ToolManager.execute_tool_requests                            *)
(***************************************************************************)
\* No direct call has returned yet
NoExecution == [variant |-> "none", requests |-> <<>>, ids |-> <<>>, errors |-> <<>>]

\* What a caller keeps of a returned batch: the requests, and the id and the
\* error flag of every result
Execution(v, reqs, blocks) ==
    [variant |-> v, requests |-> reqs,
     ids |-> [k \in 1..Len(blocks) |-> blocks[k].tool_use_id],
     errors |-> [k \in 1..Len(blocks) |-> blocks[k].is_error]]

ExecIdle ==
    /\ caller = "none" /\ variant = "none" /\ requests = <<>> /\ i = 0
    /\ tool_result_blocks = <<>> /\ findIdx = 1 /\ client = 0
    /\ observed = <<>> /\ calls = <<>>
    /\ previous = NoExecution

ExecReset ==
    /\ caller' = "none" /\ variant' = "none" /\ requests' = <<>> /\ i' = 0
    /\ tool_result_blocks' = <<>> /\ findIdx' = 1 /\ client' = 0
    /\ observed' = <<>> /\ calls' = <<>>
    /\ previous' = previous

\* Entry of execute_tool_requests(clients, r), called by who
BeginExecute(r, who) ==
    /\ caller' = who
    /\ variant' = BatchVariant(r)
    /\ requests' = BatchRequests(r)
    /\ i' = 0
    /\ tool_result_blocks' = <<>>
    /\ findIdx' = 1
    /\ client' = 0
    /\ observed' = <<>>
    /\ calls' = <<>>
    /\ previous' = previous
    /\ pc' = IF BatchRequests(r) # <<>> THEN "find" ELSE "batch_done"

\* The loop moves on to the next request before the result is there
AdvanceBeforeResult(part) ==
    /\ tool_result_blocks' = tool_result_blocks
    /\ i' = i + 1
    /\ findIdx' = 1
    /\ pc' = IF i + 1 < Len(requests) THEN "find" ELSE "batch_done"

\* tool_result_blocks.append(part), then the next request of the for loop
AppendAndAdvance(part) ==
    /\ tool_result_blocks' = Append(tool_result_blocks, part)
    /\ i' = i + 1
    /\ findIdx' = 1
    /\ pc' = IF i + 1 < Len(requests) THEN "find" ELSE "batch_done"

CurId == ToolUseId(variant, i, requests[i + 1])
CurName == ToolName(variant, requests[i + 1])
\* The arguments of the first request, whatever the request
CurInputOfFirst == ToolInput(variant, requests[1])

CurInput == ToolInput(variant, requests[i + 1])

\* One iteration of the for loop of _find_client_with_tool: the await of
\* client.list_tools() raises, or its listing is searched for the name
FindStep ==
    /\ pc = "find"
    /\ LET c == FindOrder[findIdx] IN
       IF ListToolsRaises(c)
       THEN /\ pc' = "raised"
            /\ error' = ListToolsError(c)
            /\ UNCHANGED <<i, tool_result_blocks, findIdx, client, observed>>
       ELSE /\ observed' = Append(IF findIdx = 1 THEN <<>> ELSE observed,
                                   [client |-> c, listing |-> serverTools[c]])
            /\ error' = error
            /\ IF HasTool(serverTools[c], CurName)
               THEN /\ client' = c
                    /\ pc' = "call_tool"
                    /\ UNCHANGED <<i, tool_result_blocks, findIdx>>
               ELSE IF findIdx < NumClients
               THEN /\ findIdx' = findIdx + 1
                    /\ UNCHANGED <<pc, i, tool_result_blocks, client>>
               ELSE /\ client' = 0
                    /\ AppendAndAdvance(NotFoundPart(CurId))
    /\ UNCHANGED <<clientVars, chatVars, caller, variant, requests, calls, previous>>
    /\ UNCHANGED schemaVars

\* await client.call_tool(tool_name, tool_input) and the try/except round it
CallTool(o) ==
    /\ pc = "call_tool"
    /\ calls' = Append(calls, [client |-> client, name |-> CurName,
                               input |-> CurInput, request |-> i,
                               outcome |-> CallToolOutcome(client, o)])
    /\ AppendAndAdvance(CallResultPart(CurId, CurName, CallToolOutcome(client, o)))
    /\ UNCHANGED <<clientVars, chatVars, caller, variant, requests, error,
                   client, observed, previous>>
    /\ UNCHANGED schemaVars

\* A direct call of ToolManager.execute_tool_requests(clients, r)
DirectExecute(r) ==
    /\ pc = "idle"
    /\ BeginExecute(r, "direct")
    /\ response' = r
    /\ error' = ""
    /\ UNCHANGED <<clientVars, messages, iteration_count, final_text_response,
                   tools, returned, modelCalls, batchCount>>
    /\ UNCHANGED schemaVars

\* return tool_result_blocks, to a direct caller
ExecuteReturn ==
    /\ pc = "batch_done"
    /\ caller = "direct"
    /\ pc' = "exec_returned"
    /\ previous' = Execution(variant, requests, tool_result_blocks)
    /\ UNCHANGED <<clientVars, chatVars, caller, variant, requests, i,
                   tool_result_blocks, findIdx, client, observed, calls, error>>
    /\ UNCHANGED schemaVars

\* The caller hands the same response to execute_tool_requests once more
ExecuteAgain ==
    /\ pc = "exec_returned"
    /\ BeginExecute(response, "direct")
    /\ UNCHANGED <<clientVars, chatVars, error>>
    /\ UNCHANGED schemaVars

(***************************************************************************)
(* Actions of Chat.run                                                     *)
(***************************************************************************)
\* run(query) starting a transcript of its own
RunFreshTranscript(query) ==
    /\ pc \in {"idle", "returned"}
    /\ Len(messages) < MaxMessages
    /\ RunCount < MaxRuns
    /\ messages' = <<TextMessage("user", query)>>
    /\ final_text_response' = ""
    /\ iteration_count' = 0
    /\ modelCalls' = 0
    /\ batchCount' = 0
    /\ returned' = ""
    /\ response' = NoResponse
    /\ tools' = <<>>
    /\ error' = ""
    /\ pc' = "loop"
    /\ ExecReset
    /\ UNCHANGED clientVars
    /\ UNCHANGED schemaVars

\* run(query) up to the while loop
Run(query) ==
    /\ pc \in {"idle", "returned"}
    /\ Len(messages) < MaxMessages
    /\ RunCount < MaxRuns
    /\ messages' = Append(messages, TextMessage("user", query))
    /\ final_text_response' = ""
    /\ iteration_count' = 0
    /\ modelCalls' = 0
    /\ batchCount' = 0
    /\ returned' = ""
    /\ response' = NoResponse
    /\ tools' = <<>>
    /\ error' = ""
    /\ pc' = "loop"
    /\ ExecReset
    /\ UNCHANGED clientVars
    /\ UNCHANGED schemaVars

\* The loop test with the cap off by one
LoopTestInclusive(count) == count <= max_iterations

\* while iteration_count < max_iterations: iteration_count += 1
LoopTest(count) == count < max_iterations

LoopHead ==
    /\ pc = "loop"
    /\ IF LoopTest(iteration_count)
       THEN /\ iteration_count' = iteration_count + 1
            /\ pc' = "get_all_tools"
       ELSE /\ iteration_count' = iteration_count
            /\ pc' = "after_loop"
    /\ UNCHANGED <<clientVars, execVars, messages, final_text_response, response,
                   tools, returned, modelCalls, batchCount, error>>
    /\ UNCHANGED schemaVars

\* tools = await ToolManager.get_all_tools(self.clients)
FirstFailing == CHOOSE c \in Clients :
    ListToolsRaises(c) /\ \A d \in Clients : ListToolsRaises(d) => c <= d

GetAllTools ==
    /\ pc = "get_all_tools"
    /\ IF \E c \in Clients : ListToolsRaises(c)
       THEN /\ pc' = "raised"
            /\ error' = ListToolsError(FirstFailing)
            /\ tools' = tools
       ELSE /\ tools' = get_all_tools
            /\ pc' = "chat_with_tools"
            /\ error' = error
    /\ UNCHANGED <<clientVars, execVars, messages, iteration_count,
                   final_text_response, response, returned, modelCalls, batchCount>>
    /\ UNCHANGED schemaVars

\* response = await chat_with_tools(...); _add_assistant_message(response);
\* then the branch on response.function_calls
ChatWithTools(r) ==
    /\ pc = "chat_with_tools"
    /\ Len(messages) < MaxMessages
    /\ modelCalls' = modelCalls + 1
    /\ response' = r
    /\ messages' = Append(messages, AssistantMessage(r))
    /\ IF WantsTools(r)
       THEN /\ BeginExecute(r, "run")
            /\ final_text_response' = final_text_response
       ELSE /\ final_text_response' = r.text
            /\ pc' = "after_loop"
            /\ UNCHANGED execVars
    /\ UNCHANGED <<clientVars, iteration_count, tools, returned, batchCount, error>>
    /\ UNCHANGED schemaVars

\* The adapter raises: the exception leaves run()
ChatWithToolsRaises ==
    /\ pc = "chat_with_tools"
    /\ modelCalls' = modelCalls + 1
    /\ pc' = "raised"
    /\ error' = "adapter error"
    /\ UNCHANGED <<clientVars, execVars, messages, iteration_count,
                   final_text_response, response, tools, returned, batchCount>>
    /\ UNCHANGED schemaVars

\* execute_tool_requests returned to run(): self._add_user_message(results)
ToolTurnEnd ==
    /\ pc = "batch_done"
    /\ caller = "run"
    /\ messages' = Append(messages, UserMessage(tool_result_blocks))
    /\ batchCount' = batchCount + 1
    /\ pc' = "loop"
    /\ ExecReset
    /\ UNCHANGED <<clientVars, iteration_count, final_text_response, response,
                   tools, returned, modelCalls, error>>
    /\ UNCHANGED schemaVars

\* The return without the cap check
FinalTextNoCap(count, text) == text

\* The cap check after the loop, and the return
FinalText(count, text) == IF count >= max_iterations THEN FALLBACK ELSE text

AfterLoop ==
    /\ pc = "after_loop"
    /\ final_text_response' = FinalText(iteration_count, final_text_response)
    /\ returned' = FinalText(iteration_count, final_text_response)
    /\ pc' = "returned"
    /\ UNCHANGED <<clientVars, execVars, messages, iteration_count, response,
                   tools, modelCalls, batchCount, error>>
    /\ UNCHANGED schemaVars

(***************************************************************************)
(* The servers                                                             *)
(***************************************************************************)
Active == pc \in {"loop", "get_all_tools", "chat_with_tools", "find", "call_tool"}

\* The server process dies or the pipe breaks
ConnectionLost(c) ==
    /\ Active
    /\ transport[c] = "up"
    /\ transport' = [transport EXCEPT ![c] = "down"]
    /\ UNCHANGED <<_session, _exit_stack, initialized, lifecycle, serverTools,
                   lastCall, teardown, chatVars, execVars, pc, error>>
    /\ UNCHANGED schemaVars

\* The server's tool set changes at runtime.  A change while call_tool is
\* awaited is first seen by the next list_tools, as a change right after
\* the call is: it is taken then.
ToolsChanged(c, listing) ==
    /\ Active
    /\ pc # "call_tool"
    /\ transport[c] = "up"
    /\ listing # serverTools[c]
    /\ serverTools' = [serverTools EXCEPT ![c] = listing]
    /\ UNCHANGED <<_session, _exit_stack, initialized, lifecycle, transport,
                   lastCall, teardown, chatVars, execVars, pc, error>>
    /\ UNCHANGED schemaVars

\* The faults the servers have shown so far
FaultCount ==
    Cardinality({c \in Clients : transport[c] = "down"})
    + Cardinality({c \in Clients : serverTools[c] # RunListings[c]})

(***************************************************************************)
(* Chat.run over connected clients                                         *)
(***************************************************************************)
Connected(listings) ==
    /\ _session = [c \in Clients |-> "ClientSession"]
    /\ _exit_stack = [c \in Clients |-> <<"stdio_client", "ClientSession">>]
    /\ initialized = [c \in Clients |-> TRUE]
    /\ lifecycle = [c \in Clients |-> "ready"]
    /\ transport = [c \in Clients |-> "up"]
    /\ serverTools = listings
    /\ lastCall = NoCall
    /\ teardown = [c \in Clients |-> "none"]

ChatIdle ==
    /\ messages = <<>>
    /\ iteration_count = 0
    /\ final_text_response = ""
    /\ response = NoResponse
    /\ tools = <<>>
    /\ returned = ""
    /\ modelCalls = 0
    /\ batchCount = 0

Init ==
    /\ Connected(RunListings)
    /\ ChatIdle
    /\ ExecIdle
    /\ SchemaIdle
    /\ pc = "idle"
    /\ error = ""

Next ==
    \/ \E q \in Queries : Run(q)
    \/ LoopHead
    \/ GetAllTools
    \/ \E r \in AdapterResponses : ChatWithTools(r)
    \/ ChatWithToolsRaises
    \/ FindStep
    \/ \E o \in RunOutcomes : CallTool(o)
    \/ ToolTurnEnd
    \/ AfterLoop
    \/ \E c \in Clients : FaultCount < MaxFaults /\ ConnectionLost(c)
    \/ \E c \in Clients : FaultCount < MaxFaults /\ ToolsChanged(c, <<>>)

Spec == Init /\ [][Next]_vars

(***************************************************************************)
(* Chat.run over an adapter that may answer in either request shape; the   *)
(* servers may withdraw their tools                                        *)
(***************************************************************************)
NextEither ==
    \/ \E q \in Queries : Run(q)
    \/ LoopHead
    \/ GetAllTools
    \/ \E r \in EngineResponses : ChatWithTools(r)
    \/ FindStep
    \/ \E o \in RunOutcomes : CallTool(o)
    \/ ToolTurnEnd
    \/ AfterLoop
    \/ \E c \in Clients : FaultCount < MaxFaults /\ ToolsChanged(c, <<>>)

SpecEither == Init /\ [][NextEither]_vars

(***************************************************************************)
(* ToolManager.execute_tool_requests called directly, over connected       *)
(* clients whose servers answer in every way                               *)
(***************************************************************************)
InitInvoker ==
    /\ \E listings \in Listings : Connected(listings)
    /\ ChatIdle
    /\ ExecIdle
    /\ SchemaIdle
    /\ pc = "idle"
    /\ error = ""

NextInvoker ==
    \/ \E r \in DirectResponses : DirectExecute(r)
    \/ FindStep
    \/ \E o \in ServerOutcomes : CallTool(o)
    \/ ExecuteReturn
    \/ \E c \in Clients : \E l \in ToolLists(c) : ToolsChanged(c, l)

SpecInvoker == InitInvoker /\ [][NextInvoker]_vars

(***************************************************************************)
(* ToolManager.execute_tool_requests called on the same response again     *)
(* and again, the servers answering in every way                           *)
(***************************************************************************)
NextAgain ==
    \/ \E r \in DirectResponses : DirectExecute(r)
    \/ FindStep
    \/ \E o \in ServerOutcomes : CallTool(o)
    \/ ExecuteReturn
    \/ ExecuteAgain

SpecAgain == InitInvoker /\ [][NextAgain]_vars

(***************************************************************************)
(* ToolManager._convert_mcp_schema_to_gemini applied to an inputSchema,    *)
(* and then to its own result                                              *)
(***************************************************************************)
Convert ==
    /\ pc = "idle"
    /\ gemini_schema' = _convert_mcp_schema_to_gemini(mcp_schema)
    /\ pc' = "converted"
    /\ UNCHANGED <<clientVars, chatVars, execVars, mcp_schema, reconverted, error>>

ConvertAgain ==
    /\ pc = "converted"
    /\ reconverted' = _convert_mcp_schema_to_gemini(gemini_schema)
    /\ pc' = "reconverted"
    /\ UNCHANGED <<clientVars, chatVars, execVars, mcp_schema, gemini_schema, error>>

InitSchema ==
    /\ Connected(RunListings)
    /\ ChatIdle
    /\ ExecIdle
    /\ mcp_schema \in Schemas
    /\ gemini_schema = NotAMapping
    /\ reconverted = NotAMapping
    /\ pc = "idle"
    /\ error = ""

NextSchema ==
    \/ Convert
    \/ ConvertAgain

SpecSchema == InitSchema /\ [][NextSchema]_vars

(***************************************************************************)
(* Actions of MCPClient: connect(), cleanup() and calls on the client      *)
(***************************************************************************)
Connecting(c) ==
    lifecycle[c] \in {"connect:stdio_client", "connect:ClientSession", "connect:initialize"}

\* __aenter__: await self.connect(), up to its first await
Connect(c) ==
    /\ lifecycle[c] = "constructed"
    /\ lifecycle' = [lifecycle EXCEPT ![c] = "connect:stdio_client"]
    /\ UNCHANGED <<_session, _exit_stack, initialized, transport, serverTools,
                   lastCall, teardown, chatVars, execVars, pc, error>>
    /\ UNCHANGED schemaVars

\* enter_async_context(stdio_client(server_params)): the subprocess runs
EnterStdio(c) ==
    /\ lifecycle[c] = "connect:stdio_client"
    /\ _exit_stack' = [_exit_stack EXCEPT ![c] = Append(@, "stdio_client")]
    /\ transport' = [transport EXCEPT ![c] = "up"]
    /\ lifecycle' = [lifecycle EXCEPT ![c] = "connect:ClientSession"]
    /\ UNCHANGED <<_session, initialized, serverTools, lastCall, teardown, chatVars,
                   execVars, pc, error>>
    /\ UNCHANGED schemaVars

\* self._session = await enter_async_context(ClientSession(_stdio, _write))
EnterSession(c) ==
    /\ lifecycle[c] = "connect:ClientSession"
    /\ _exit_stack' = [_exit_stack EXCEPT ![c] = Append(@, "ClientSession")]
    /\ _session' = [_session EXCEPT ![c] = "ClientSession"]
    /\ lifecycle' = [lifecycle EXCEPT ![c] = "connect:initialize"]
    /\ UNCHANGED <<initialized, transport, serverTools, lastCall, teardown, chatVars,
                   execVars, pc, error>>
    /\ UNCHANGED schemaVars

\* await self._session.initialize() completes the handshake
Initialize(c) ==
    /\ lifecycle[c] = "connect:initialize"
    /\ initialized' = [initialized EXCEPT ![c] = TRUE]
    /\ lifecycle' = [lifecycle EXCEPT ![c] = "ready"]
    /\ UNCHANGED <<_session, _exit_stack, transport, serverTools, lastCall,
                   teardown, chatVars, execVars, pc, error>>
    /\ UNCHANGED schemaVars

\* One of the awaits of connect() raises (the launch fails, the handshake
\* does not complete, the task is cancelled): connect() has no handler
ConnectRaises(c) ==
    /\ Connecting(c)
    /\ lifecycle' = [lifecycle EXCEPT ![c] = "connect_raised"]
    /\ UNCHANGED <<_session, _exit_stack, initialized, transport, serverTools,
                   lastCall, teardown, chatVars, execVars, pc, error>>
    /\ UNCHANGED schemaVars

\* The finally clause of cleanup(): self._session = None, on the paths
\* "ok", "error" (an Exception, suppressed) and "aborted" (a BaseException)
CleanupFinallyOnSuccess(session, path) == IF path = "ok" THEN "None" ELSE session

CleanupFinally(session, path) == "None"

\* Cleanup without the except clause
CleanupEndsNoHandler(path) == IF path = "ok" THEN "cleanup_done" ELSE "cleanup_raised"

\* How cleanup() ends: it returns on the paths "ok" and "error" (except
\* Exception: pass) and lets a BaseException through
CleanupEnds(path) == IF path \in {"ok", "error"} THEN "cleanup_done" ELSE "cleanup_raised"

\* __aexit__: await self.cleanup(), up to its first await
Cleanup(c) ==
    /\ lifecycle[c] = "ready"
    /\ lifecycle' = [lifecycle EXCEPT ![c] =
           IF _session[c] # "None" THEN "cleanup:sleep" ELSE "cleanup:aclose"]
    /\ UNCHANGED <<_session, _exit_stack, initialized, transport, serverTools,
                   lastCall, teardown, chatVars, execVars, pc, error>>
    /\ UNCHANGED schemaVars

\* await asyncio.sleep(0.1) is over
CleanupSleep(c) ==
    /\ lifecycle[c] = "cleanup:sleep"
    /\ lifecycle' = [lifecycle EXCEPT ![c] = "cleanup:aclose"]
    /\ UNCHANGED <<_session, _exit_stack, initialized, transport, serverTools,
                   lastCall, teardown, chatVars, execVars, pc, error>>
    /\ UNCHANGED schemaVars

\* await self._exit_stack.aclose() returns, or raises an Exception that
\* the except clause swallows; then the finally clause
CleanupAclose(c, path) ==
    /\ lifecycle[c] = "cleanup:aclose"
    /\ path \in {"ok", "error"}
    /\ _exit_stack' = [_exit_stack EXCEPT ![c] = <<>>]
    /\ transport' = [transport EXCEPT ![c] = "none"]
    /\ _session' = [_session EXCEPT ![c] = CleanupFinally(@, path)]
    /\ teardown' = [teardown EXCEPT ![c] = path]
    /\ lifecycle' = [lifecycle EXCEPT ![c] = CleanupEnds(path)]
    /\ UNCHANGED <<initialized, serverTools, lastCall, chatVars, execVars, pc, error>>
    /\ UNCHANGED schemaVars

\* One of the awaits of cleanup() raises a BaseException (cancellation,
\* KeyboardInterrupt): the finally clause runs and the exception goes on.
\* During the sleep the exit stack is untouched; during aclose() the stack
\* is unwound and the subprocess is released or left running.
CleanupAborted(c, released) ==
    /\ lifecycle[c] \in {"cleanup:sleep", "cleanup:aclose"}
    /\ IF lifecycle[c] = "cleanup:sleep"
       THEN /\ ~released
            /\ UNCHANGED <<_exit_stack, transport>>
       ELSE /\ _exit_stack' = [_exit_stack EXCEPT ![c] = <<>>]
            /\ transport' = [transport EXCEPT ![c] = IF released THEN "none" ELSE @]
    /\ _session' = [_session EXCEPT ![c] = CleanupFinally(@, "aborted")]
    /\ teardown' = [teardown EXCEPT ![c] = "aborted"]
    /\ lifecycle' = [lifecycle EXCEPT ![c] = CleanupEnds("aborted")]
    /\ UNCHANGED <<initialized, serverTools, lastCall, chatVars, execVars, pc, error>>
    /\ UNCHANGED schemaVars

\* client.list_tools() or client.call_tool(...) called on the client
ClientCall(c, op) ==
    /\ lastCall' = ClientCallRecord(c, op)
    /\ UNCHANGED <<_session, _exit_stack, initialized, lifecycle, transport,
                   serverTools, teardown, chatVars, execVars, pc, error>>
    /\ UNCHANGED schemaVars

(***************************************************************************)
(* The life of the clients, from construction                              *)
(***************************************************************************)
Constructed ==
    /\ _session = [c \in Clients |-> "None"]
    /\ _exit_stack = [c \in Clients |-> <<>>]
    /\ initialized = [c \in Clients |-> FALSE]
    /\ lifecycle = [c \in Clients |-> "constructed"]
    /\ transport = [c \in Clients |-> "none"]
    /\ serverTools = RunListings
    /\ lastCall = NoCall
    /\ teardown = [c \in Clients |-> "none"]

InitClient ==
    /\ Constructed
    /\ ChatIdle
    /\ ExecIdle
    /\ SchemaIdle
    /\ pc = "idle"
    /\ error = ""

NextClient ==
    \/ \E c \in Clients : Connect(c)
    \/ \E c \in Clients : EnterStdio(c)
    \/ \E c \in Clients : EnterSession(c)
    \/ \E c \in Clients : Initialize(c)
    \/ \E c \in Clients : ConnectRaises(c)
    \/ \E c \in Clients : Cleanup(c)
    \/ \E c \in Clients : CleanupSleep(c)
    \/ \E c \in Clients, path \in {"ok", "error"} : CleanupAclose(c, path)
    \/ \E c \in Clients, released \in BOOLEAN : CleanupAborted(c, released)
    \/ \E c \in Clients, op \in {"list_tools", "call_tool"} : ClientCall(c, op)

SpecClient == InitClient /\ [][NextClient]_vars

(***************************************************************************)
(* The clients under the AsyncExitStack of main(): entered one after the   *)
(* other, left in reverse order                                            *)
(***************************************************************************)
InUse(c) == lifecycle[c] \in {"ready", "cleanup:sleep", "cleanup:aclose"}

\* stack.enter_async_context(MCPClient(...)): the clients before it are in
ScopeEnter(c) ==
    /\ \A d \in Clients : d < c => lifecycle[d] = "ready"
    /\ Connect(c)

\* The stack pops the exit callback of c: every client entered after c has
\* been left, whether its __aexit__ returned or raised
ExitTurn(c) ==
    \A d \in Clients : d > c => lifecycle[d] \notin
        {"connect:stdio_client", "connect:ClientSession", "connect:initialize",
         "ready", "cleanup:sleep", "cleanup:aclose"}

ScopeExit(c) ==
    /\ ExitTurn(c)
    /\ Cleanup(c)

\* The steps the event loop takes when nothing fails
ScopeProgress ==
    \/ \E c \in Clients : ScopeExit(c)
    \/ \E c \in Clients : CleanupSleep(c)
    \/ \E c \in Clients, path \in {"ok", "error"} : CleanupAclose(c, path)

NextScope ==
    \/ \E c \in Clients : ScopeEnter(c)
    \/ \E c \in Clients : EnterStdio(c)
    \/ \E c \in Clients : EnterSession(c)
    \/ \E c \in Clients : Initialize(c)
    \/ \E c \in Clients : ConnectRaises(c)
    \/ \E c \in Clients : ScopeExit(c)
    \/ \E c \in Clients : CleanupSleep(c)
    \/ \E c \in Clients, path \in {"ok", "error"} : CleanupAclose(c, path)
    \/ \E c \in Clients, released \in BOOLEAN : CleanupAborted(c, released)
    \/ \E c \in Clients, op \in {"list_tools", "call_tool"} : ClientCall(c, op)

SpecScope == InitClient /\ [][NextScope]_vars /\ WF_vars(ScopeProgress)

(***************************************************************************)
(* Properties                                                              *)
(***************************************************************************)
IsQuery(m) == m.role = "user" /\ m.kind = "text" /\ m.text \in Queries
HasFunctionCalls(m) == m.role = "assistant" /\ m.kind = "parts"

\* The index of the query of the current run() call
LastQueryIdx ==
    CHOOSE k \in 1..Len(messages) :
        IsQuery(messages[k]) /\ \A j \in (k + 1)..Len(messages) : ~IsQuery(messages[j])

\* Every response of the current run() call requested a tool
AllToolResponses ==
    /\ messages # <<>>
    /\ \A k \in (LastQueryIdx + 1)..Len(messages) :
           messages[k].role = "assistant" => HasFunctionCalls(messages[k])

\* C1: one run() call makes at most 5 chat_with_tools calls and executes at
\* most 5 tool batches; after the 5th batch the loop test fails and run()
\* goes on to return.
C1_BoundedCycles ==
    /\ modelCalls <= 5
    /\ batchCount <= 5
    /\ iteration_count <= 5
    /\ batchCount <= modelCalls
    /\ (pc = "loop" /\ batchCount = 5) => ~LoopTest(iteration_count)
    /\ pc = "returned" => modelCalls >= 1

C1_Witness == pc = "returned" /\ modelCalls = 5 /\ batchCount = 5

\* C2 (as claimed): when the last response of a run carries no tool-call
\* requests, run() returns exactly that response's text, and the fallback is
\* returned only when no response of the run was plain text.
C2_PlainTextReturned ==
    pc = "returned" =>
        /\ response.function_calls = <<>> => returned = response.text
        /\ returned = FALLBACK => response.function_calls # <<>>

\* C3: when every response of a run requests a tool, run() returns after
\* exactly 5 model calls and 5 tool batches, with the fallback text; once
\* the 5th batch is done no exception leaves run().
C3_CapReturnsFallback ==
    /\ (pc = "returned" /\ AllToolResponses) =>
           modelCalls = 5 /\ batchCount = 5 /\ returned = FALLBACK
    /\ batchCount = 5 => pc \in {"loop", "after_loop", "returned"}

C3_Witness == pc = "returned" /\ AllToolResponses /\ returned = FALLBACK

\* The ids of the tool-result summary that answers an assistant message
FunctionCallParts(m) == SelectSeq(m.parts, LAMBDA p : p.type = "function_call")

Answers(summary, assistant) ==
    LET fcs == FunctionCallParts(assistant)
    IN  /\ summary.role = "user"
        /\ summary.kind = "summary"
        /\ Len(summary.lines) = Len(fcs)
        /\ \A j \in 1..Len(fcs) :
               summary.lines[j][1] = <<"gemini_call", j - 1, fcs[j].name>>

\* C4: at every chat_with_tools call, every assistant message with
\* function-call parts is immediately followed by the user message carrying
\* the tool-result summary of that same response.
C4_Pairing ==
    pc = "chat_with_tools" =>
        \A k \in 1..Len(messages) :
            HasFunctionCalls(messages[k]) =>
                /\ k < Len(messages)
                /\ Answers(messages[k + 1], messages[k])

C4_Witness ==
    /\ pc = "chat_with_tools"
    /\ \E k \in 1..Len(messages) :
           HasFunctionCalls(messages[k]) /\ Len(FunctionCallParts(messages[k])) = 2

\* The id the result of the k-th request (k from 1) has to carry
ExpectedId(k) ==
    IF variant = "A" THEN <<"gemini_call", k - 1, requests[k].name>> ELSE requests[k].id

BatchReturned == pc \in {"batch_done", "exec_returned"}

\* C5: the list execute_tool_requests returns has exactly one result per
\* request of the response, and the k-th result carries the id of the k-th
\* request.
C5_OneResultPerRequest ==
    BatchReturned =>
        /\ requests = BatchRequests(response)
        /\ Len(tool_result_blocks) = Len(requests)
        /\ \A k \in 1..Len(requests) :
               /\ tool_result_blocks[k].tool_use_id = ExpectedId(k)
               /\ tool_result_blocks[k].type = "tool_result"

C5_Witness ==
    /\ pc = "exec_returned"
    /\ Len(requests) = 2
    /\ tool_result_blocks[1].content = Literal(NOT_FOUND)
    /\ calls # <<>>
    /\ calls[1].outcome.kind = "raise"

\* C6: when call_tool raises for request r, the result of request r is the
\* one error result whose content is the JSON object {"error": message}
\* with the exception's message in it, and the loop goes on: every later
\* request gets its lookup and its result.
C6_ErrorIsolation ==
    /\ pc \in {"find", "call_tool"} => Len(tool_result_blocks) = i
    /\ \A k \in 1..Len(calls) :
           calls[k].outcome.kind = "raise" =>
               LET r == calls[k].request + 1
               IN  /\ r <= Len(tool_result_blocks)
                   /\ tool_result_blocks[r] =
                          [tool_use_id |-> ExpectedId(r), type |-> "tool_result",
                           content |-> [fmt |-> "json_error",
                                        body |-> <<"Error executing tool",
                                                   requests[r].name,
                                                   calls[k].outcome.msg>>],
                           is_error |-> TRUE]
                   /\ \A j \in 1..Len(calls) : calls[j].request = calls[k].request => j = k
                   /\ pc \in {"find", "call_tool", "batch_done", "exec_returned"}
                   /\ BatchReturned =>
                          \A q \in (r + 1)..Len(requests) :
                              \/ \E j \in 1..Len(calls) : calls[j].request = q - 1
                              \/ tool_result_blocks[q].content = Literal(NOT_FOUND)

C6_Witness ==
    /\ pc = "exec_returned"
    /\ Len(calls) = 2
    /\ calls[1].outcome.kind = "raise"
    /\ calls[1].request = 0
    /\ calls[2].outcome.kind = "result"

\* The lookup of request i (counted from 1) has just ended with no client
\* listing its name
LookupFoundNone ==
    /\ pc \in {"find", "batch_done", "exec_returned"}
    /\ i >= 1
    /\ findIdx = 1
    /\ Len(observed) = NumClients
    /\ \A e \in 1..Len(observed) : ~InSeq(requests[i].name, observed[e].listing)

\* C7: when no client lists the requested name, the request yields the one
\* result {is_error: true, content: "Could not find that tool"}, call_tool
\* is invoked on no client for it, and the batch goes on with the next
\* request.
C7_NotFound ==
    LookupFoundNone =>
        /\ Len(tool_result_blocks) = i
        /\ tool_result_blocks[i] =
               [tool_use_id |-> ExpectedId(i), type |-> "tool_result",
                content |-> [fmt |-> "str", body |-> <<"Could not find that tool">>],
                is_error |-> TRUE]
        /\ \A j \in 1..Len(calls) : calls[j].request # i - 1
        /\ i < Len(requests) => pc = "find"

C7_Witness == LookupFoundNone /\ i = 1 /\ Len(requests) = 2 /\ pc = "find"

\* C8: _find_client_with_tool scans the clients in registration order and
\* returns the first one whose listing, when asked, holds the name; it
\* returns None exactly when no client's listing holds it.
C8_FirstMatch ==
    /\ \A e \in 1..Len(observed) : observed[e].client = e
    /\ pc = "call_tool" =>
           /\ observed # <<>>
           /\ client = observed[Len(observed)].client
           /\ InSeq(requests[i + 1].name, observed[Len(observed)].listing)
           /\ \A e \in 1..(Len(observed) - 1) :
                  ~InSeq(requests[i + 1].name, observed[e].listing)
    /\ (BatchReturned \/ (pc = "find" /\ findIdx = 1)) =>
           \A k \in 1..Len(tool_result_blocks) :
               tool_result_blocks[k].content = Literal(NOT_FOUND)
                   <=> ~\E j \in 1..Len(calls) : calls[j].request = k - 1
    /\ (pc \in {"find", "batch_done", "exec_returned"} /\ i >= 1 /\ findIdx = 1
        /\ tool_result_blocks[i].content = Literal(NOT_FOUND)) => LookupFoundNone

C8_Witness ==
    /\ pc = "call_tool"
    /\ client = 1
    /\ InSeq(requests[i + 1].name, serverTools[2])

\* C9 (as claimed): a transport failure raised by call_tool during
\* Chat.run aborts the run; it is never turned into a tool result.
C9_TransportFailureAborts ==
    caller = "run" =>
        \A k \in 1..Len(calls) :
            (calls[k].outcome.kind = "raise" /\ calls[k].outcome.msg = CONNECTION_LOST)
                => pc = "raised"

\* C10: once cleanup() has ended on a client, normally, after a suppressed
\* teardown error or by an exception leaving it, every list_tools() and
\* call_tool() on that client fails at session() with the session-not-ready
\* error, before anything is awaited.
C10_ClosedClientRejectsCalls ==
    /\ \A c \in Clients :
           CleanedUp(c) => _session[c] = "None" /\ ListToolsError(c) = NOT_READY
    /\ lastCall.after_cleanup =>
           lastCall.status = "not_ready" /\ ~lastCall.awaited_session

C10_Witness ==
    /\ lastCall.after_cleanup
    /\ lastCall.op = "call_tool"
    /\ lifecycle[lastCall.client] = "cleanup_raised"

\* The scope of client c is over: __aenter__ raised, or __aexit__ ended
ScopeEnded(c) == lifecycle[c] \in {"connect_raised", "cleanup_done", "cleanup_raised"}

\* C11 (as claimed): on every exit path of a client's scope, a failure of
\* connect() after the launch and a cancellation included, cleanup() has run
\* and the subprocess transport the client acquired is released.
C11_ScopedRelease ==
    \A c \in Clients :
        ScopeEnded(c) =>
            /\ transport[c] = "none"
            /\ _exit_stack[c] = <<>>
            /\ (lifecycle[c] = "connect_raised" \/ teardown[c] # "none")

\* C12 (as claimed): when connect() fails at the handshake, _session is
\* unset, so list_tools() and call_tool() fail at session() with the
\* session-not-ready error.
C12_FailedHandshakeLeavesSessionUnset ==
    \A c \in Clients :
        (lifecycle[c] = "connect_raised" /\ ~initialized[c]) =>
            /\ _session[c] = "None"
            /\ ListToolsStatus(c) = "not_ready"
            /\ CallToolOutcome(c, ReturnsNone) = Raises(NOT_READY)

\* C13: an error raised by the teardown of one client is suppressed by its
\* cleanup(), which completes without raising and leaves the session unset;
\* and once it has happened, the cleanup() of every other client of the
\* scope still runs to its end.
C13_TeardownErrorSuppressed ==
    /\ [](\A c \in Clients :
            teardown[c] = "error" =>
                lifecycle[c] = "cleanup_done" /\ _session[c] = "None")
    /\ \A c \in Clients :
           (teardown[c] = "error") ~> (\A d \in Clients : ~InUse(d))

C13_Witness ==
    /\ teardown[2] = "error"
    /\ lifecycle[1] = "cleanup_done"
    /\ teardown[1] = "ok"

\* C14: a model call is made only when every batch of the run is finished
\* and its summary is the last message; a batch runs only after the model
\* call that asked for it has returned and its assistant message is the
\* last message; and within a batch request i+1 is looked up or invoked
\* only when the requests before it have their results, one call at a time
\* in request order.
C14_StrictAlternation ==
    /\ pc = "chat_with_tools" =>
           /\ batchCount = modelCalls
           /\ caller = "none"
           /\ messages[Len(messages)].role = "user"
           /\ batchCount > 0 => messages[Len(messages)].kind = "summary"
    /\ caller = "run" =>
           /\ modelCalls = batchCount + 1
           /\ messages[Len(messages)] = AssistantMessage(response)
           /\ requests = response.function_calls
    /\ pc \in {"find", "call_tool"} =>
           /\ Len(tool_result_blocks) = i
           /\ \A k \in 1..Len(calls) : calls[k].request < i
    /\ \A k \in 1..Len(calls) : \A j \in 1..Len(calls) :
           k < j => calls[k].request < calls[j].request

C14_Witness ==
    /\ pc = "call_tool"
    /\ caller = "run"
    /\ i = 1
    /\ Len(calls) = 1
    /\ batchCount = 1

\* C15 (as claimed): the snapshot get_all_tools returned holds every tool
\* name at most once.
C15_UniqueNames ==
    \A k \in 1..Len(tools) : \A j \in 1..Len(tools) :
        tools[k] = tools[j] => k = j

\* The lookup of request i (counted from 1) is over, and observed holds the
\* listings it was given
LookupDone ==
    /\ pc \in {"find", "batch_done", "exec_returned"}
    /\ i >= 1
    /\ findIdx = 1

\* The positions of observed whose listing holds the name of request i
Hits == {e \in 1..Len(observed) : InSeq(requests[i].name, observed[e].listing)}

\* C16: every call_tool carries the name and the arguments of its request,
\* no request has two calls, and a request whose name some asked client
\* listed has its one call on the first client, in registration order,
\* whose listing held the name when it was asked; a request whose name no
\* listing held has no call.
C16_Routing ==
    /\ \A k \in 1..Len(calls) :
           LET r == calls[k].request + 1
           IN  /\ r <= Len(requests)
               /\ calls[k].name = requests[r].name
               /\ calls[k].input = ToolInput(variant, requests[r])
               /\ calls[k].client \in Clients
               /\ \A j \in 1..Len(calls) : calls[j].request = calls[k].request => j = k
    /\ LookupDone =>
           IF Hits # {}
           THEN /\ calls # <<>>
                /\ calls[Len(calls)].request = i - 1
                /\ \A e \in Hits : e = Len(observed)
                /\ calls[Len(calls)].client = observed[Len(observed)].client
                /\ \A e \in 1..Len(observed) : observed[e].client = e
           ELSE \A k \in 1..Len(calls) : calls[k].request # i - 1

C16_Witness ==
    /\ pc = "exec_returned"
    /\ Len(calls) = 2
    /\ calls[1].name = "search" /\ calls[1].client = 1
    /\ calls[2].name = "fetch" /\ calls[2].client = 2
    /\ InSeq("search", serverTools[2])

\* The ids of the results built so far
ResultIds == [k \in 1..Len(tool_result_blocks) |-> tool_result_blocks[k].tool_use_id]
ResultErrors == [k \in 1..Len(tool_result_blocks) |-> tool_result_blocks[k].is_error]

\* C17: in a variant A batch the id of the result at index k (from 0) is
\* gemini_call_<k>_<name of request k>, and the ids of one batch differ
\* pairwise even when a name is requested twice; in a variant B batch the
\* id is the id of the request; and the same response executed again gives
\* the same id sequence, whatever the tools did in either execution.
C17_DeterministicIds ==
    /\ variant = "A" =>
           /\ \A k \in 1..Len(ResultIds) :
                  ResultIds[k] = <<"gemini_call", k - 1, requests[k].name>>
           /\ \A k \in 1..Len(ResultIds) : \A j \in 1..Len(ResultIds) :
                  ResultIds[k] = ResultIds[j] => k = j
    /\ variant = "B" =>
           \A k \in 1..Len(ResultIds) : ResultIds[k] = requests[k].id
    /\ (previous # NoExecution /\ pc # "idle") =>
           /\ previous.variant = variant
           /\ previous.requests = requests
           /\ \A k \in 1..Len(ResultIds) : ResultIds[k] = previous.ids[k]
           /\ BatchReturned => ResultIds = previous.ids

C17_Witness ==
    /\ pc = "batch_done"
    /\ variant = "A"
    /\ Len(requests) = 2
    /\ requests[1].name = requests[2].name
    /\ previous.requests = requests
    /\ previous.errors # ResultErrors

\* C18: every step leaves the messages appended so far as they are and
\* where they are, and appends at most one message: the transcript before
\* a step is a prefix of the transcript after it, within a run() call, when
\* an exception leaves run(), and from one run() call to the next.
C18_AppendOnly ==
    [][/\ IsPrefix(messages, messages')
       /\ Len(messages') <= Len(messages) + 1]_vars

C18_Witness ==
    /\ RunCount = 2
    /\ pc = "raised"
    /\ \E k \in 1..Len(messages) : messages[k].kind = "summary"
    /\ messages[Len(messages)].role = "assistant"

\* run() is inside a tool turn: the batch of the last response is executing
\* or has just been returned to run()
InToolTurn == caller = "run" /\ pc \in {"find", "call_tool", "batch_done"}

\* C19: the step that ends a tool turn appends exactly one message, a user
\* message: for a non-empty batch of results the summary with one line
\* "- <id>: <SUCCESS|ERROR> - <content>" per result in result order, for an
\* empty batch the placeholder; the steps inside the turn append nothing,
\* and a batch is counted as done only by the step that appends.
C19_OneUserMessagePerToolTurn ==
    [][/\ (InToolTurn /\ pc' \notin {"find", "call_tool", "batch_done", "raised"}) =>
              /\ batchCount' = batchCount + 1
              /\ Len(messages') = Len(messages) + 1
              /\ LET m == messages'[Len(messages')]
                 IN  /\ m.role = "user"
                     /\ IF tool_result_blocks # <<>>
                        THEN /\ m.kind = "summary"
                             /\ m.text = "Tool execution results:"
                             /\ Len(m.lines) = Len(tool_result_blocks)
                             /\ \A k \in 1..Len(tool_result_blocks) :
                                    m.lines[k] =
                                        <<tool_result_blocks[k].tool_use_id,
                                          IF tool_result_blocks[k].is_error
                                          THEN "ERROR" ELSE "SUCCESS",
                                          tool_result_blocks[k].content>>
                        ELSE m = TextMessage("user", PLACEHOLDER)
       /\ (InToolTurn /\ pc' \in {"find", "call_tool", "batch_done", "raised"}) =>
              messages' = messages /\ batchCount' = batchCount
       /\ batchCount' > batchCount => InToolTurn /\ pc = "batch_done"
       /\ UserMessage(<<>>) = TextMessage("user", PLACEHOLDER)]_vars

C19_Witness ==
    /\ pc = "loop"
    /\ batchCount >= 1
    /\ LET m == messages[Len(messages)]
       IN  /\ m.kind = "summary"
           /\ Len(m.lines) = 2
           /\ m.lines[1][2] = "ERROR"
           /\ m.lines[2][2] = "SUCCESS"

Converted == pc \in {"converted", "reconverted"}

\* What the conversion does outside the properties: {} for a value that is
\* no dict; else the type copied (default "object"), required copied when
\* present, no other top-level key, and properties present exactly when
\* the input has the key
TopLevelRule ==
    IF ~mcp_schema.is_dict
    THEN gemini_schema = EmptyDict
    ELSE /\ gemini_schema.is_dict
         /\ gemini_schema.type = Some(IF mcp_schema.type = None THEN "object"
                                       ELSE mcp_schema.type[1])
         /\ gemini_schema.required = mcp_schema.required
         /\ gemini_schema.others = {}
         /\ (gemini_schema.properties = None) <=> (mcp_schema.properties = None)

\* C20 (as claimed): every property of the input is in the result with
\* exactly those of type, description, enum that it carries in the input,
\* values unchanged, and no other key; type and required are copied at the
\* top level; a non-mapping gives {}; converting the result again returns
\* it unchanged.
C20_KeepsCarriedKeys ==
    /\ Converted =>
           /\ TopLevelRule
           /\ (mcp_schema.is_dict /\ mcp_schema.properties # None) =>
                  LET ins == mcp_schema.properties[1]
                      outs == gemini_schema.properties[1]
                  IN  /\ Len(outs) = Len(ins)
                      /\ \A k \in 1..Len(ins) :
                             /\ outs[k].name = ins[k].name
                             /\ outs[k].def.type = ins[k].def.type
                             /\ outs[k].def.description = ins[k].def.description
                             /\ outs[k].def.enum = ins[k].def.enum
                             /\ outs[k].def.others = {}
    /\ pc = "reconverted" => reconverted = gemini_schema

\* C20 (amended): the result has the properties of the input whose
\* definition is a dict, in the input's order, and drops the others; each
\* has a type, the input's or "string" when the input property has none,
\* the description and the enum exactly when the input property carries
\* them, values unchanged, and no other key; type and required are copied
\* at the top level; a non-mapping gives {}; converting the result of a
\* mapping again returns it unchanged, and converting the {} of a
\* non-mapping gives {"type": "object"}.
C20_ConversionRule ==
    /\ Converted =>
           /\ TopLevelRule
           /\ (mcp_schema.is_dict /\ mcp_schema.properties # None) =>
                  LET ins == SelectSeq(mcp_schema.properties[1],
                                       LAMBDA p : p.def.is_dict)
                      outs == gemini_schema.properties[1]
                  IN  /\ Len(outs) = Len(ins)
                      /\ \A k \in 1..Len(ins) :
                             /\ outs[k].name = ins[k].name
                             /\ outs[k].def.is_dict
                             /\ outs[k].def.type =
                                    (IF ins[k].def.type = None THEN <<"string">>
                                     ELSE ins[k].def.type)
                             /\ outs[k].def.description = ins[k].def.description
                             /\ outs[k].def.enum = ins[k].def.enum
                             /\ outs[k].def.others = {}
    /\ pc = "reconverted" =>
           reconverted = (IF mcp_schema.is_dict THEN gemini_schema
                          ELSE Schema(<<"object">>, None, None, {}))

C20_Witness ==
    /\ pc = "reconverted"
    /\ mcp_schema.is_dict
    /\ mcp_schema.others # {}
    /\ mcp_schema.type = None
    /\ mcp_schema.required # None
    /\ mcp_schema.properties # None
    /\ Len(mcp_schema.properties[1]) = 2
    /\ ~mcp_schema.properties[1][1].def.is_dict
    /\ mcp_schema.properties[1][2].def.type = None
    /\ mcp_schema.properties[1][2].def.enum # None
    /\ mcp_schema.properties[1][2].def.others # {}

\* C21 (as claimed): when every run() call made so far has returned, the
\* transcript starts with a user message and no two consecutive messages
\* have the same role.
C21_RolesAlternate ==
    pc \in {"idle", "returned"} =>
        /\ messages # <<>> => messages[1].role = "user"
        /\ \A k \in 1..(Len(messages) - 1) :
               messages[k].role # messages[k + 1].role

\* C22 (as claimed): when run() has returned, the last message of the
\* transcript is an assistant message with plain-text content, and the
\* content is the value run() returned.
C22_TranscriptAgreesWithAnswer ==
    pc = "returned" =>
        /\ messages[Len(messages)].role = "assistant"
        /\ messages[Len(messages)].kind = "text"
        /\ messages[Len(messages)].text = returned

\* The response carries tool_use blocks and no function_calls
ToolUseOnly(r) == r.function_calls = <<>> /\ r.has_content /\ BatchRequests(r) # <<>>

\* C23: run() goes from the model call into a tool turn exactly when the
\* response has a non-empty function_calls list; every batch run() hands to
\* execute_tool_requests takes the variant A path over exactly those
\* function calls and comes back with a non-empty result list, so the
\* placeholder message is never in the transcript; and a response with
\* tool_use blocks only ends the loop as a plain-text answer, without a
\* lookup or a call for its requests.
C23_EngineInvokerAgree ==
    /\ [](/\ caller = "run" =>
               /\ variant = "A"
               /\ response.function_calls # <<>>
               /\ requests = response.function_calls
          /\ (caller = "run" /\ pc = "batch_done") =>
               /\ tool_result_blocks # <<>>
               /\ Len(tool_result_blocks) = Len(response.function_calls)
          /\ \A k \in 1..Len(messages) : messages[k].text # PLACEHOLDER
          /\ (pc \in {"after_loop", "returned"} /\ ToolUseOnly(response)) =>
               /\ caller = "none"
               /\ requests = <<>> /\ calls = <<>> /\ observed = <<>>
               /\ messages[Len(messages)] = TextMessage("assistant", response.text)
               /\ pc = "after_loop" => final_text_response = response.text)
    /\ [][(pc = "chat_with_tools" /\ pc' \notin {"chat_with_tools", "raised"}) =>
              /\ (pc' = "find") <=> (response'.function_calls # <<>>)
              /\ (pc' = "after_loop") <=> (response'.function_calls = <<>>)
              /\ pc' \in {"find", "after_loop"}]_vars

C23_Witness ==
    /\ pc = "returned"
    /\ ToolUseOnly(response)
    /\ batchCount >= 1
    /\ iteration_count < max_iterations
    /\ returned = response.text

====
